---- MODULE Spec2Model ----
(***************************************************************************)
(* Model of the Polymarket exchange adapter (package polymarket): the      *)
(* market catalog cache, the dry-run submission gate and the in-memory     *)
(* order ledger, all guarded by the single mutex Exchange.mu.              *)
(*                                                                         *)
(* Heap: every *types.Order allocated by SubmitOrder is stored under its   *)
(* own OrderID and never removed, so a pointer to it is modelled by that   *)
(* OrderID and orders[id] is the pointed-to record.  A Go map that is nil  *)
(* and one that is empty are both the empty function: the code only ever   *)
(* takes len() of them.                                                    *)
(*                                                                         *)
(* The process environment (POLYMARKET_MARKETS_FILE, POLYMARKET_MARKETS_   *)
(* JSON, POLYMARKET_DRY_RUN) is outside the Exchange and can be changed    *)
(* between any two calls, so each os.Getenv is an input of the step that   *)
(* reads it and the frame of the call records what was read.               *)
(***************************************************************************)
(* clock        the latest value time.Now() returned                       *)
(* mu           Exchange.mu: 0 when free, else the thread holding it       *)
(* markets      Exchange.markets                                           *)
(* nextOrderID  Exchange.nextOrderID                                       *)
(* orders       Exchange.orders, with the records the pointers point to    *)
(* pc, frame    each caller's position in its call, its arguments and      *)
(*              the values it returns                                      *)
(* issued       history: the identifiers returned by SubmitOrder, in order *)
(* canceledIds  history: the stored identifiers CancelOrders was applied to*)
(* lastQM       history: what the latest QueryMarkets returned             *)
(* snap         the QueryOpenOrders result a caller has kept after return  *)
(* loads        history: how often loadMarketsFromEnv was invoked and how  *)
(*              often it succeeded, each counted up to MaxLoads            *)
(***************************************************************************)
EXTENDS Integers, Sequences, FiniteSets, TLC

VARIABLES clock, mu, markets, nextOrderID, orders, pc, frame,
          issued, canceledIds, lastQM, snap, loads

vars == <<clock, mu, markets, nextOrderID, orders, pc, frame,
          issued, canceledIds, lastQM, snap, loads>>

\* ------------------------------------------------------------------ bounds
MaxOrders == 2
MaxClock == 1
MaxRefs == 1
MaxLoads == 2

Threads == {1, 2}
Symbols == {"A", "B"}
RefIds == 0 .. MaxOrders

\* ------------------------------------------------------- names and values
ExchangePolymarket == "polymarket"
OrderStatusNew == "NEW"
OrderStatusCanceled == "CANCELED"

EmptyMap == [k \in {} |-> 0]

ErrNil == "nil"
ErrReadFile == "polymarket: read POLYMARKET_MARKETS_FILE failed"
ErrDecode == "polymarket: decode markets json failed"
ErrEmptySymbol == "polymarket: market symbol is empty in json"
ErrNotImplemented == "polymarket: real trading is not implemented yet"

\* ------------------------------------------------ library functions (Go)
\* strings.TrimSpace on the environment values the model uses.
TrimSpace(s) ==
    CASE s = " " -> ""
      [] s = " false " -> "false"
      [] s = " [] " -> "[]"
      [] OTHER -> s

\* strconv.ParseBool: [ok, b].
ParseBool(v) ==
    IF v \in {"1", "t", "T", "TRUE", "true", "True"} THEN [ok |-> TRUE, b |-> TRUE]
    ELSE IF v \in {"0", "f", "F", "FALSE", "false", "False"} THEN [ok |-> TRUE, b |-> FALSE]
    ELSE [ok |-> FALSE, b |-> FALSE]

\* A types.Market as json.Unmarshal fills it: absent fields are zero values.
Market(sym, base, quote) ==
    [Symbol |-> sym, BaseCurrency |-> base, QuoteCurrency |-> quote, Exchange |-> ""]

\* The JSON documents of the model, by their text: what encoding/json sees.
\* kind "object": members maps each key to the decoded record;
\* kind "array": items is the sequence of decoded records.
JSONDoc(kind, members, items) == [kind |-> kind, members |-> members, items |-> items]

TxtNull == "null"
TxtBad == "{not json"
TxtEmptyObj == "{}"
TxtEmptyArr == "[]"
TxtObjY == "{\"Y\":{\"symbol\":\"\",\"baseCurrency\":\"Y\"}}"
TxtObjDup == "{\"X\":{\"symbol\":\"Y\"},\"Y\":{\"symbol\":\"Y\"}}"
TxtObjNoKey == "{\"\":{\"symbol\":\"\",\"baseCurrency\":\"Y\"}}"
TxtArrX == "[{\"symbol\":\"X\",\"baseCurrency\":\"X\",\"quoteCurrency\":\"USDC\"}]"
TxtArrNoSym == "[{\"symbol\":\"X\"},{\"symbol\":\"\",\"baseCurrency\":\"Y\"}]"
TxtArrDup == "[{\"symbol\":\"X\",\"baseCurrency\":\"X\"},{\"symbol\":\"X\",\"baseCurrency\":\"Y\"}]"

ParseJSON(b) ==
    CASE b = TxtNull -> JSONDoc("null", EmptyMap, <<>>)
      [] b = TxtEmptyObj -> JSONDoc("object", EmptyMap, <<>>)
      [] b = TxtEmptyArr -> JSONDoc("array", EmptyMap, <<>>)
      [] b = TxtObjY -> JSONDoc("object", [k \in {"Y"} |-> Market("", "Y", "")], <<>>)
      [] b = TxtObjDup -> JSONDoc("object", [k \in {"X", "Y"} |-> Market("Y", "", "")], <<>>)
      [] b = TxtObjNoKey -> JSONDoc("object", [k \in {""} |-> Market("", "Y", "")], <<>>)
      [] b = TxtArrX -> JSONDoc("array", EmptyMap, <<Market("X", "X", "USDC")>>)
      [] b = TxtArrNoSym ->
            JSONDoc("array", EmptyMap, <<Market("X", "", ""), Market("", "Y", "")>>)
      [] b = TxtArrDup ->
            JSONDoc("array", EmptyMap, <<Market("X", "X", ""), Market("X", "Y", "")>>)
      [] OTHER -> JSONDoc("invalid", EmptyMap, <<>>)

\* json.Unmarshal(b, &mm) with mm a types.MarketMap: an object decodes into
\* the map, null leaves it nil, anything else is an error.
UnmarshalMarketMap(b) ==
    LET d == ParseJSON(b) IN
    IF d.kind = "object" THEN [ok |-> TRUE, mm |-> d.members]
    ELSE IF d.kind = "null" THEN [ok |-> TRUE, mm |-> EmptyMap]
    ELSE [ok |-> FALSE, mm |-> EmptyMap]

\* json.Unmarshal(b, &arr) with arr a []types.Market.
UnmarshalMarkets(b) ==
    LET d == ParseJSON(b) IN
    IF d.kind = "array" THEN [ok |-> TRUE, arr |-> d.items]
    ELSE IF d.kind = "null" THEN [ok |-> TRUE, arr |-> <<>>]
    ELSE [ok |-> FALSE, arr |-> <<>>]

\* The files os.ReadFile can read; any other path fails.
Files == [p \in {"markets.json", "alt.json"} |->
            IF p = "markets.json" THEN TxtArrX ELSE TxtObjY]

ReadFile(path) ==
    IF path \in DOMAIN Files THEN [ok |-> TRUE, b |-> Files[path]]
    ELSE [ok |-> FALSE, b |-> ""]

\* m with key k set to v (a Go map assignment).
MapSet(m, k, v) == [x \in (DOMAIN m) \cup {k} |-> IF x = k THEN v ELSE m[x]]

\* The orders a range over a set can visit it in.
Orderings(S) ==
    {s \in [1 .. Cardinality(S) -> S] : \A i, j \in 1 .. Cardinality(S) : i # j => s[i] # s[j]}

\* ------------------------------------------------------- market catalog
defaultExampleMarkets_yesOnly ==
    [k \in {"PM_BTC_15M_UP_YES_USDC"} |->
        [Symbol |-> "PM_BTC_15M_UP_YES_USDC", BaseCurrency |-> "PM_BTC_15M_UP_YES",
         QuoteCurrency |-> "USDC", Exchange |-> ""]]

defaultExampleMarkets ==
    [k \in {"PM_BTC_15M_UP_YES_USDC", "PM_BTC_15M_UP_NO_USDC"} |->
        IF k = "PM_BTC_15M_UP_YES_USDC"
        THEN Market("PM_BTC_15M_UP_YES_USDC", "PM_BTC_15M_UP_YES", "USDC")
        ELSE Market("PM_BTC_15M_UP_NO_USDC", "PM_BTC_15M_UP_NO", "USDC")]

\* The loop of decodeMarketsJSON over arr, from index i with out built so far.
RECURSIVE decodeLoop(_, _, _)
decodeLoop(arr, i, out) ==
    IF i > Len(arr) THEN [markets |-> out, err |-> ErrNil]
    ELSE IF arr[i].Symbol = "" THEN [markets |-> EmptyMap, err |-> ErrEmptySymbol]
    ELSE decodeLoop(arr, i + 1, MapSet(out, arr[i].Symbol, arr[i]))

decodeMarketsJSON(b) ==
    LET asMap == UnmarshalMarketMap(b)
        asArr == UnmarshalMarkets(b)
    IN  IF asMap.ok /\ Cardinality(DOMAIN asMap.mm) > 0
        THEN [markets |-> asMap.mm, err |-> ErrNil]
        ELSE IF ~asArr.ok THEN [markets |-> EmptyMap, err |-> ErrDecode]
        ELSE decodeLoop(asArr.arr, 1, EmptyMap)

loadMarketsFromEnv(e) ==
    LET path == TrimSpace(e.file)
        raw == TrimSpace(e.json)
        f == ReadFile(path)
    IN  IF path # ""
        THEN IF ~f.ok THEN [markets |-> EmptyMap, err |-> ErrReadFile]
             ELSE decodeMarketsJSON(f.b)
        ELSE IF raw # "" THEN decodeMarketsJSON(raw)
        ELSE [markets |-> EmptyMap, err |-> ErrNil]

fillExchange_noBackfill(m) ==
    [symbol \in DOMAIN m |-> [m[symbol] EXCEPT !.Exchange = ExchangePolymarket]]

\* The loop of QueryMarkets that stamps the exchange and backfills the symbol.
fillExchange(m) ==
    [symbol \in DOMAIN m |->
        [m[symbol] EXCEPT !.Exchange = ExchangePolymarket,
                          !.Symbol = IF @ = "" THEN symbol ELSE @]]

queryMarkets_noCache(cached, e) ==
    LET loaded == loadMarketsFromEnv(e)
        chosen == IF Cardinality(DOMAIN loaded.markets) = 0
                  THEN defaultExampleMarkets ELSE loaded.markets
    IN  IF loaded.err # ErrNil
        THEN [markets |-> EmptyMap, err |-> loaded.err, cache |-> cached, loaded |-> TRUE]
        ELSE [markets |-> fillExchange(chosen), err |-> ErrNil,
              cache |-> fillExchange(chosen), loaded |-> TRUE]

\* The body of QueryMarkets under the lock: [markets, err, cache, loaded];
\* loaded tells whether loadMarketsFromEnv was invoked.
queryMarkets(cached, e) ==
    LET loaded == loadMarketsFromEnv(e)
        chosen == IF Cardinality(DOMAIN loaded.markets) = 0
                  THEN defaultExampleMarkets ELSE loaded.markets
    IN  IF Cardinality(DOMAIN cached) > 0
        THEN [markets |-> cached, err |-> ErrNil, cache |-> cached, loaded |-> FALSE]
        ELSE IF loaded.err # ErrNil
        THEN [markets |-> EmptyMap, err |-> loaded.err, cache |-> cached, loaded |-> TRUE]
        ELSE [markets |-> fillExchange(chosen), err |-> ErrNil,
              cache |-> fillExchange(chosen), loaded |-> TRUE]

\* ------------------------------------------------------------ order ledger
\* e.nextOrderID++ (a uint64; the model stops far below 2^64).
postIncrement_stuck(n) == n

postIncrement(n) == n + 1

resolveDryRun_noTrim(v) ==
    IF v # "" /\ ParseBool(v).ok THEN ParseBool(v).b ELSE TRUE

\* dryRun as SubmitOrder resolves it from POLYMARKET_DRY_RUN.
resolveDryRun(v) ==
    LET s == TrimSpace(v) IN
    IF s # "" /\ ParseBool(s).ok THEN ParseBool(s).b ELSE TRUE

newOrder_idle(order, oid, now) ==
    [Symbol |-> order.Symbol,
     Exchange |-> ExchangePolymarket,
     OrderID |-> oid,
     Status |-> OrderStatusNew,
     ExecutedQuantity |-> 0,
     IsWorking |-> FALSE,
     CreationTime |-> now,
     UpdateTime |-> now,
     OriginalStatus |-> "NEW"]

\* The types.Order SubmitOrder allocates.
newOrder(order, oid, now) ==
    [Symbol |-> order.Symbol,
     Exchange |-> ExchangePolymarket,
     OrderID |-> oid,
     Status |-> OrderStatusNew,
     ExecutedQuantity |-> 0,
     IsWorking |-> TRUE,
     CreationTime |-> now,
     UpdateTime |-> now,
     OriginalStatus |-> "NEW"]

isOpen_noEmptyFilter(o, symbol) ==
    IF ~o.IsWorking THEN FALSE
    ELSE IF o.Symbol # symbol THEN FALSE
    ELSE TRUE

\* The test of the QueryOpenOrders loop: TRUE when o is appended.
isOpen(o, symbol) ==
    IF ~o.IsWorking THEN FALSE
    ELSE IF symbol # "" /\ o.Symbol # symbol THEN FALSE
    ELSE TRUE

\* The QueryOpenOrders loop, visiting the map in the order ord.
RECURSIVE scanOpen(_, _, _, _)
scanOpen(os, ord, i, symbol) ==
    IF i > Len(ord) THEN <<>>
    ELSE IF isOpen(os[ord[i]], symbol)
    THEN <<os[ord[i]]>> \o scanOpen(os, ord, i + 1, symbol)
    ELSE scanOpen(os, ord, i + 1, symbol)

cancelExisting_keepsStatus(existing, now) ==
    [existing EXCEPT !.IsWorking = FALSE,
                     !.UpdateTime = now]

cancelExisting_toggle(existing, now) ==
    [existing EXCEPT !.IsWorking = ~@,
                     !.Status = OrderStatusCanceled,
                     !.OriginalStatus = "CANCELED",
                     !.UpdateTime = now]

cancelExisting_stillWorking(existing, now) ==
    [existing EXCEPT !.Status = OrderStatusCanceled,
                     !.OriginalStatus = "CANCELED",
                     !.UpdateTime = now]

\* What CancelOrders writes to one stored order.
cancelExisting(existing, now) ==
    [existing EXCEPT !.IsWorking = FALSE,
                     !.Status = OrderStatusCanceled,
                     !.OriginalStatus = "CANCELED",
                     !.UpdateTime = now]

RECURSIVE cancelLoop_delete(_, _, _, _)
cancelLoop_delete(os, refs, i, now) ==
    IF i > Len(refs) THEN os
    ELSE cancelLoop_delete([k \in DOMAIN os \ {refs[i].OrderID} |-> os[k]], refs, i + 1, now)

RECURSIVE cancelLoop_insert(_, _, _, _)
cancelLoop_insert(os, refs, i, now) ==
    IF i > Len(refs) THEN os
    ELSE IF refs[i].OrderID \in DOMAIN os
    THEN cancelLoop_insert([os EXCEPT ![refs[i].OrderID] = cancelExisting(@, now)], refs, i + 1, now)
    ELSE cancelLoop_insert(
            MapSet(os, refs[i].OrderID, cancelExisting(newOrder([Symbol |-> ""], refs[i].OrderID, now), now)),
            refs, i + 1, now)

RECURSIVE cancelLoop_bySymbol(_, _, _, _)
cancelLoop_bySymbol(os, refs, i, now) ==
    IF i > Len(refs) THEN os
    ELSE IF refs[i].OrderID \in DOMAIN os /\ os[refs[i].OrderID].Symbol = refs[i].Symbol
    THEN cancelLoop_bySymbol([os EXCEPT ![refs[i].OrderID] = cancelExisting(@, now)],
                             refs, i + 1, now)
    ELSE cancelLoop_bySymbol(os, refs, i + 1, now)

\* The CancelOrders loop over the references refs (orders as the caller
\* passes them), from index i: only refs[i].OrderID is read.
RECURSIVE cancelLoop(_, _, _, _)
cancelLoop(os, refs, i, now) ==
    IF i > Len(refs) THEN os
    ELSE IF refs[i].OrderID \in DOMAIN os
    THEN cancelLoop([os EXCEPT ![refs[i].OrderID] = cancelExisting(@, now)], refs, i + 1, now)
    ELSE cancelLoop(os, refs, i + 1, now)

\* The status of each existing (line 224) the loop looked up, as it was
\* before the loop wrote to it.
RECURSIVE found(_, _, _, _)
found(os, refs, i, now) ==
    IF i > Len(refs) THEN <<>>
    ELSE IF refs[i].OrderID \in DOMAIN os
    THEN <<os[refs[i].OrderID].Status>>
            \o found([os EXCEPT ![refs[i].OrderID] = cancelExisting(@, now)], refs, i + 1, now)
    ELSE found(os, refs, i + 1, now)

\* ------------------------------------------------------------ call frames
Idle == [op |-> "none", at |-> "idle"]
At(op, at) == [op |-> op, at |-> at]

NoConfig == [file |-> "", json |-> ""]

NoFrame == [ptr |-> 0, list |-> <<>>, markets |-> EmptyMap, err |-> ErrNil,
            symbol |-> "", refs |-> <<>>, dryRun |-> "", config |-> NoConfig]

\* ----------------------------------------------------------------- state
\* New(key, secret, passphrase).
Init ==
    /\ clock = 0
    /\ mu = 0
    /\ markets = EmptyMap
    /\ nextOrderID = 1
    /\ orders = EmptyMap
    /\ pc = [t \in Threads |-> Idle]
    /\ frame = [t \in Threads |-> NoFrame]
    /\ issued = <<>>
    /\ canceledIds = {}
    /\ lastQM = [called |-> FALSE, markets |-> EmptyMap, err |-> ErrNil]
    /\ snap = [kept |-> FALSE, list |-> <<>>]
    /\ loads = [invoked |-> 0, ok |-> 0]

ledgerVars == <<nextOrderID, orders, issued, canceledIds>>
auxVars == <<snap, loads>>

\* The values time.Now() can return when the latest one returned is clock.
Now == {n \in {clock, clock + 1} : n <= MaxClock}

\* The history counter n after an event that happened or not.
countUp(n, happened) == IF happened /\ n < MaxLoads THEN n + 1 ELSE n

\* ------------------------------------------------------------- the mutex
Unlock_leakOnError(t) ==
    /\ pc[t].at = "out"
    /\ mu' = IF frame[t].err # ErrNil THEN mu ELSE 0
    /\ pc' = [pc EXCEPT ![t] = Idle]
    /\ frame' = [frame EXCEPT ![t] = NoFrame]
    /\ UNCHANGED <<clock, markets, lastQM, ledgerVars, auxVars>>

\* The deferred e.mu.Unlock() and the return to the caller.
Unlock(t) ==
    /\ pc[t].at = "out"
    /\ mu' = 0
    /\ pc' = [pc EXCEPT ![t] = Idle]
    /\ frame' = [frame EXCEPT ![t] = NoFrame]
    /\ UNCHANGED <<clock, markets, lastQM, ledgerVars, auxVars>>

\* ----------------------------------------------------------- QueryMarkets
QueryMarketsCall(t) ==
    /\ pc[t] = Idle
    /\ pc' = [pc EXCEPT ![t] = At("QueryMarkets", "lock")]
    /\ UNCHANGED <<clock, mu, markets, frame, lastQM, ledgerVars, auxVars>>

\* The body under the lock; e is the environment it reads.
QueryMarketsBody(t, e) ==
    /\ pc[t] = At("QueryMarkets", "lock")
    /\ mu = 0
    /\ mu' = t
    /\ LET r == queryMarkets(markets, e) IN
        /\ markets' = r.cache
        /\ frame' = [frame EXCEPT ![t] =
                        [NoFrame EXCEPT !.markets = r.markets, !.err = r.err, !.config = e]]
        /\ lastQM' = [called |-> TRUE, markets |-> r.markets, err |-> r.err]
        /\ loads' = [invoked |-> countUp(loads.invoked, r.loaded),
                     ok |-> countUp(loads.ok, r.loaded /\ r.err = ErrNil)]
    /\ pc' = [pc EXCEPT ![t] = At("QueryMarkets", "out")]
    /\ UNCHANGED <<clock, ledgerVars, snap>>

\* ------------------------------------------------------------ SubmitOrder
SubmitOrderCall_consumesId(t, v) ==
    /\ pc[t] = Idle
    /\ IF resolveDryRun(v)
       THEN /\ pc' = [pc EXCEPT ![t] = At("SubmitOrder", "lock")]
            /\ frame' = [frame EXCEPT ![t] = [NoFrame EXCEPT !.dryRun = v]]
            /\ nextOrderID' = nextOrderID
       ELSE /\ pc' = [pc EXCEPT ![t] = At("SubmitOrder", "ret")]
            /\ frame' = [frame EXCEPT ![t] =
                            [NoFrame EXCEPT !.dryRun = v, !.err = ErrNotImplemented]]
            /\ nextOrderID' = postIncrement(nextOrderID)
    /\ UNCHANGED <<clock, mu, markets, lastQM, orders, issued, canceledIds, auxVars>>

\* The call: the dry-run gate, before the lock is taken; v is the value of
\* POLYMARKET_DRY_RUN it reads.
SubmitOrderCall(t, v) ==
    /\ pc[t] = Idle
    /\ IF resolveDryRun(v)
       THEN /\ pc' = [pc EXCEPT ![t] = At("SubmitOrder", "lock")]
            /\ frame' = [frame EXCEPT ![t] = [NoFrame EXCEPT !.dryRun = v]]
       ELSE /\ pc' = [pc EXCEPT ![t] = At("SubmitOrder", "ret")]
            /\ frame' = [frame EXCEPT ![t] =
                            [NoFrame EXCEPT !.dryRun = v, !.err = ErrNotImplemented]]
    /\ UNCHANGED <<clock, mu, markets, lastQM, ledgerVars, auxVars>>

\* The return of a rejected SubmitOrder (no lock held).
SubmitOrderReturn(t) ==
    /\ pc[t] = At("SubmitOrder", "ret")
    /\ pc' = [pc EXCEPT ![t] = Idle]
    /\ frame' = [frame EXCEPT ![t] = NoFrame]
    /\ UNCHANGED <<clock, mu, markets, lastQM, ledgerVars, auxVars>>

SubmitOrderBody(t, order, now) ==
    /\ pc[t] = At("SubmitOrder", "lock")
    /\ mu = 0
    /\ mu' = t
    /\ nextOrderID <= MaxOrders
    /\ LET oid == nextOrderID
           created == newOrder(order, oid, now)
       IN
        /\ nextOrderID' = postIncrement(nextOrderID)
        /\ orders' = MapSet(orders, oid, created)
        /\ frame' = [frame EXCEPT ![t] = [NoFrame EXCEPT !.ptr = oid]]
        /\ clock' = now
        /\ issued' = Append(issued, created.OrderID)
    /\ pc' = [pc EXCEPT ![t] = At("SubmitOrder", "out")]
    /\ UNCHANGED <<markets, lastQM, canceledIds, auxVars>>

\* -------------------------------------------------------- QueryOpenOrders
QueryOpenOrdersCall(t) ==
    /\ pc[t] = Idle
    /\ pc' = [pc EXCEPT ![t] = At("QueryOpenOrders", "lock")]
    /\ UNCHANGED <<clock, mu, markets, frame, lastQM, ledgerVars, auxVars>>

QueryOpenOrdersBody_noLock(t, symbol) ==
    /\ pc[t] = At("QueryOpenOrders", "lock")
    /\ mu' = t
    /\ \E ord \in Orderings(DOMAIN orders) :
        frame' = [frame EXCEPT ![t] =
                    [NoFrame EXCEPT !.symbol = symbol,
                                    !.list = scanOpen(orders, ord, 1, symbol)]]
    /\ pc' = [pc EXCEPT ![t] = At("QueryOpenOrders", "out")]
    /\ UNCHANGED <<clock, markets, lastQM, ledgerVars, auxVars>>

\* The body under the lock: the scan, in one of the orders the map may be
\* iterated in.
QueryOpenOrdersBody(t, symbol) ==
    /\ pc[t] = At("QueryOpenOrders", "lock")
    /\ mu = 0
    /\ mu' = t
    /\ \E ord \in Orderings(DOMAIN orders) :
        frame' = [frame EXCEPT ![t] =
                    [NoFrame EXCEPT !.symbol = symbol,
                                    !.list = scanOpen(orders, ord, 1, symbol)]]
    /\ pc' = [pc EXCEPT ![t] = At("QueryOpenOrders", "out")]
    /\ UNCHANGED <<clock, markets, lastQM, ledgerVars, auxVars>>

\* What line 213 appends for the stored order o: the copy *o (alias FALSE),
\* not the pointer o, and what a caller reads through it in the ledger os.
element_pointer(o) == [alias |-> TRUE, val |-> o]

element(o) == [alias |-> FALSE, val |-> o]

Seen(cell, os) == IF cell.alias THEN os[cell.val.OrderID] ELSE cell.val

\* The deferred unlock and the return of QueryOpenOrders to a caller that
\* keeps the returned slice.
QueryOpenOrdersKeep(t) ==
    /\ pc[t] = At("QueryOpenOrders", "out")
    /\ mu' = 0
    /\ pc' = [pc EXCEPT ![t] = Idle]
    /\ snap' = [kept |-> TRUE,
                list |-> [i \in 1 .. Len(frame[t].list) |-> element(frame[t].list[i])]]
    /\ frame' = [frame EXCEPT ![t] = NoFrame]
    /\ UNCHANGED <<clock, markets, lastQM, ledgerVars, loads>>

\* ----------------------------------------------------------- CancelOrders
CancelOrdersCall(t) ==
    /\ pc[t] = Idle
    /\ pc' = [pc EXCEPT ![t] = At("CancelOrders", "lock")]
    /\ UNCHANGED <<clock, mu, markets, frame, lastQM, ledgerVars, auxVars>>

\* refs: the orders passed; the frame keeps their identifiers.
CancelOrdersBody(t, refs, now) ==
    /\ pc[t] = At("CancelOrders", "lock")
    /\ mu = 0
    /\ mu' = t
    /\ clock' = now
    /\ orders' = cancelLoop(orders, refs, 1, now)
    /\ canceledIds' = canceledIds \cup
                        {refs[i].OrderID :
                            i \in {j \in 1 .. Len(refs) : refs[j].OrderID \in DOMAIN orders}}
    /\ frame' = [frame EXCEPT ![t] =
                    [NoFrame EXCEPT !.refs = [i \in 1 .. Len(refs) |-> refs[i].OrderID],
                                    !.list = found(orders, refs, 1, now)]]
    /\ pc' = [pc EXCEPT ![t] = At("CancelOrders", "out")]
    /\ UNCHANGED <<markets, lastQM, nextOrderID, issued, auxVars>>

\* ------------------------------------------------------------------ inputs
FileValues == {"", "missing.json", "markets.json", "alt.json"}
JSONValues == {"", " ", " [] ", TxtNull, TxtBad, TxtEmptyObj, TxtEmptyArr, TxtObjY, TxtObjDup,
               TxtObjNoKey, TxtArrX, TxtArrNoSym, TxtArrDup}
DryRunValues == {"", "true", "maybe", "false", " false ", "0"}

\* Every configuration of the catalog, and the ones the full system is run with.
Configs == [file : FileValues, json : JSONValues]
LedgerConfigs == [file : {"", "missing.json"}, json : {""}]

SubmitOrders == [Symbol : Symbols]
Filters == {""} \cup Symbols
\* The orders passed to CancelOrders: types.Order values with the identifier
\* set and the symbol left empty, so no reference has the symbol of the
\* order it names.
RefSeqs == UNION {[1 .. n -> [OrderID : RefIds, Symbol : {""}]] : n \in 0 .. MaxRefs}

\* ---------------------------------------------------------- specification
Next ==
    \/ \E t \in Threads : Unlock(t)
    \/ \E t \in Threads : QueryMarketsCall(t)
    \/ \E t \in Threads, e \in LedgerConfigs : QueryMarketsBody(t, e)
    \/ \E t \in Threads, v \in DryRunValues : SubmitOrderCall(t, v)
    \/ \E t \in Threads : SubmitOrderReturn(t)
    \/ \E t \in Threads, order \in SubmitOrders, now \in Now : SubmitOrderBody(t, order, now)
    \/ \E t \in Threads : QueryOpenOrdersCall(t)
    \/ \E t \in Threads, symbol \in Filters : QueryOpenOrdersBody(t, symbol)
    \/ \E t \in Threads : CancelOrdersCall(t)
    \/ \E t \in Threads, refs \in RefSeqs, now \in Now : CancelOrdersBody(t, refs, now)

Spec == Init /\ [][Next]_vars

\* The order ledger and the submission gate alone.
NextLedger ==
    \/ \E t \in Threads : Unlock(t)
    \/ \E t \in Threads, v \in DryRunValues : SubmitOrderCall(t, v)
    \/ \E t \in Threads : SubmitOrderReturn(t)
    \/ \E t \in Threads, order \in SubmitOrders, now \in Now : SubmitOrderBody(t, order, now)
    \/ \E t \in Threads : QueryOpenOrdersCall(t)
    \/ \E t \in Threads, symbol \in Filters : QueryOpenOrdersBody(t, symbol)
    \/ \E t \in Threads : CancelOrdersCall(t)
    \/ \E t \in Threads, refs \in RefSeqs, now \in Now : CancelOrdersBody(t, refs, now)

SpecLedger == Init /\ [][NextLedger]_vars

\* The catalog alone, under every configuration.
NextCatalog ==
    \/ \E t \in Threads : Unlock(t)
    \/ \E t \in Threads : QueryMarketsCall(t)
    \/ \E t \in Threads, e \in Configs : QueryMarketsBody(t, e)

SpecCatalog == Init /\ [][NextCatalog]_vars

\* A caller outside any call writes through the *types.Order that SubmitOrder
\* returned for id (createdOrder is the stored pointer itself).
CallerWrite(id, working) ==
    /\ \E i \in 1 .. Len(issued) : issued[i] = id
    /\ id \in DOMAIN orders
    /\ orders' = [orders EXCEPT ![id].IsWorking = working]
    /\ UNCHANGED <<clock, mu, markets, nextOrderID, pc, frame, issued, canceledIds, lastQM,
                   auxVars>>

\* The ledger with callers that write to the orders they were handed.
NextCaller ==
    \/ NextLedger
    \/ \E id \in RefIds, working \in BOOLEAN : CallerWrite(id, working)

SpecCaller == Init /\ [][NextCaller]_vars

\* The four facade operations together, for the claims about the mutex:
\* the catalog unset or unreadable, dry-run unset or false, one symbol, no
\* symbol filter.
NextFacade ==
    \/ \E t \in Threads : Unlock(t)
    \/ \E t \in Threads : QueryMarketsCall(t)
    \/ \E t \in Threads, e \in LedgerConfigs : QueryMarketsBody(t, e)
    \/ \E t \in Threads, v \in {"", "false"} : SubmitOrderCall(t, v)
    \/ \E t \in Threads : SubmitOrderReturn(t)
    \/ \E t \in Threads, now \in Now : SubmitOrderBody(t, [Symbol |-> "A"], now)
    \/ \E t \in Threads : QueryOpenOrdersCall(t)
    \/ \E t \in Threads : QueryOpenOrdersBody(t, "")
    \/ \E t \in Threads : CancelOrdersCall(t)
    \/ \E t \in Threads, refs \in RefSeqs, now \in Now : CancelOrdersBody(t, refs, now)

SpecFacade == Init /\ [][NextFacade]_vars

\* The four facade operations as far as locking goes: as NextFacade, with
\* time.Now() returning the same instant throughout (timestamps play no part
\* in who holds the mutex). BodyOf(t) is what thread t does once it has the
\* mutex.
BodyOf(t) ==
    \/ \E e \in LedgerConfigs : QueryMarketsBody(t, e)
    \/ SubmitOrderBody(t, [Symbol |-> "A"], clock)
    \/ QueryOpenOrdersBody(t, "")
    \/ \E refs \in RefSeqs : CancelOrdersBody(t, refs, clock)

NextLocking ==
    \/ \E t \in Threads : Unlock(t)
    \/ \E t \in Threads : QueryMarketsCall(t)
    \/ \E t \in Threads, v \in {"", "false"} : SubmitOrderCall(t, v)
    \/ \E t \in Threads : SubmitOrderReturn(t)
    \/ \E t \in Threads : QueryOpenOrdersCall(t)
    \/ \E t \in Threads : CancelOrdersCall(t)
    \/ \E t \in Threads : BodyOf(t)

\* Scheduling: a call that can return does (deferred unlock, rejected
\* submit), and a caller blocked in e.mu.Lock() is not passed over forever
\* while the mutex keeps becoming free (sync.Mutex hands the lock to a
\* starving waiter).
SpecLockingFair ==
    /\ Init
    /\ [][NextLocking]_vars
    /\ \A t \in Threads :
        /\ WF_vars(Unlock(t))
        /\ WF_vars(SubmitOrderReturn(t))
        /\ SF_vars(BodyOf(t))

\* The ledger with a caller that keeps what QueryOpenOrders returned: the
\* thread Observer queries and keeps, the other threads submit (dry-run
\* unset) and cancel.
Observer == 1

NextSnapshot ==
    \/ \E t \in Threads : Unlock(t)
    \/ QueryOpenOrdersCall(Observer)
    \/ \E symbol \in Filters : QueryOpenOrdersBody(Observer, symbol)
    \/ QueryOpenOrdersKeep(Observer)
    \/ \E t \in Threads \ {Observer} : SubmitOrderCall(t, "")
    \/ \E t \in Threads \ {Observer}, order \in SubmitOrders, now \in Now :
            SubmitOrderBody(t, order, now)
    \/ \E t \in Threads \ {Observer} : CancelOrdersCall(t)
    \/ \E t \in Threads \ {Observer}, refs \in RefSeqs, now \in Now :
            CancelOrdersBody(t, refs, now)

SpecSnapshot == Init /\ [][NextSnapshot]_vars

\* ------------------------------------------------------------ properties
\* How often the identifier id occurs in the sequence of orders list.
Count(list, id) == Cardinality({i \in 1 .. Len(list) : list[i].OrderID = id})

\* The identifiers in the sequence of orders list.
IdsOf(list) == {list[i].OrderID : i \in 1 .. Len(list)}

\* Every result QueryOpenOrders(symbol) can return in the ledger os.
OpenResults(os, symbol) == {scanOpen(os, ord, 1, symbol) : ord \in Orderings(DOMAIN os)}

\* The step in which thread t runs the locked body of op.
BodyStep(t, op) == pc[t] = At(op, "lock") /\ pc'[t] = At(op, "out")

\* C1: the identifiers returned by the successful SubmitOrder calls, in the
\* order the calls take effect, are strictly increasing (hence pairwise
\* distinct) and the first one is 1.
C1_IdentifiersIncrease ==
    /\ \A i, j \in 1 .. Len(issued) : i < j => issued[i] < issued[j]
    /\ Len(issued) > 0 => issued[1] = 1
    /\ \A t \in Threads :
        pc[t] = At("SubmitOrder", "out") =>
            /\ Len(issued) > 0
            /\ orders[frame[t].ptr].OrderID = issued[Len(issued)]

C1_Witness ==
    /\ Len(issued) >= 2
    /\ pc[2] = At("SubmitOrder", "out")
    /\ pc[1] = At("SubmitOrder", "lock")

\* C2: right after a successful SubmitOrder the returned order is NEW,
\* working, with executed quantity zero, and every QueryOpenOrders("")
\* result holds its identifier exactly once.
C2_SubmittedOrderIsOpen ==
    \A t \in Threads :
        pc[t] = At("SubmitOrder", "out") =>
            /\ frame[t].err = ErrNil
            /\ frame[t].ptr \in DOMAIN orders
            /\ LET o == orders[frame[t].ptr] IN
                /\ o.Status = OrderStatusNew
                /\ o.IsWorking
                /\ o.ExecutedQuantity = 0
                /\ \A res \in OpenResults(orders, "") : Count(res, o.OrderID) = 1

C2_Witness ==
    \E t \in Threads :
        /\ pc[t] = At("SubmitOrder", "out")
        /\ frame[t].ptr = 2
        /\ 1 \in canceledIds

\* C3: once CancelOrders has been applied to a stored identifier, the order
\* is CANCELED and not working in every later state and is in no result a
\* later QueryOpenOrders returns, whatever the filter; and the status of a
\* stored order only ever changes from NEW to CANCELED, in a CancelOrders
\* step.
C3_CanceledIsTerminal ==
    /\ [](/\ \A id \in canceledIds :
                /\ id \in DOMAIN orders
                /\ orders[id].Status = OrderStatusCanceled
                /\ ~orders[id].IsWorking
           /\ \A t \in Threads :
                pc[t] = At("QueryOpenOrders", "out") =>
                    IdsOf(frame[t].list) \cap canceledIds = {})
    /\ [][\A id \in DOMAIN orders :
            /\ id \in DOMAIN orders'
            /\ orders'[id].Status # orders[id].Status =>
                /\ orders[id].Status = OrderStatusNew
                /\ orders'[id].Status = OrderStatusCanceled
                /\ \E t \in Threads : BodyStep(t, "CancelOrders")
         ]_vars

C3_Witness ==
    /\ 1 \in canceledIds
    /\ 2 \in DOMAIN orders
    /\ orders[2].CreationTime > orders[1].UpdateTime
    /\ \E t \in Threads : pc[t] = At("QueryOpenOrders", "out") /\ Len(frame[t].list) = 1

\* C4: a CancelOrders call whose references all name identifiers that were
\* never issued returns nil and changes neither the counter nor any field
\* of any stored order.
C4_CancelUnknownIsNoOp ==
    [][\A t \in Threads :
        (/\ BodyStep(t, "CancelOrders")
         /\ \A i \in 1 .. Len(frame'[t].refs) : frame'[t].refs[i] \notin DOMAIN orders)
        => /\ orders' = orders
           /\ nextOrderID' = nextOrderID
           /\ frame'[t].err = ErrNil
      ]_vars

C4_Witness ==
    \E t \in Threads :
        /\ pc[t] = At("CancelOrders", "out")
        /\ Len(frame[t].refs) = 1
        /\ frame[t].refs[1] \notin DOMAIN orders
        /\ 1 \in DOMAIN orders
        /\ orders[1].IsWorking
        /\ clock > orders[1].UpdateTime

\* C5: a caller that writes to an order it was handed by SubmitOrder does
\* not change the ledger.
C5_CallersHoldCopies ==
    [][\A id \in RefIds, working \in BOOLEAN : CallerWrite(id, working) => orders' = orders]_vars

\* C6: a SubmitOrder call that reads an explicit false from
\* POLYMARKET_DRY_RUN returns the not-implemented error and no order, and
\* leaves the ledger alone.
ExplicitFalse(v) == TrimSpace(v) \in {"0", "f", "F", "FALSE", "false", "False"}

C6_LiveSubmitRejected ==
    [][\A t \in Threads :
        (pc[t] = Idle /\ pc'[t].op = "SubmitOrder" /\ ExplicitFalse(frame'[t].dryRun))
        => /\ pc'[t] = At("SubmitOrder", "ret")
           /\ frame'[t].err = ErrNotImplemented
           /\ frame'[t].ptr = 0
           /\ UNCHANGED <<nextOrderID, orders>>
      ]_vars

C6_Witness ==
    \E t \in Threads :
        /\ pc[t] = At("SubmitOrder", "ret")
        /\ frame[t].dryRun = " false "
        /\ frame[t].err = ErrNotImplemented
        /\ 1 \in DOMAIN orders

\* C7 as claimed: every QueryMarkets call returns the catalog the call
\* before it returned.
C7_ConsecutiveCatalogsEqual ==
    [][\A t \in Threads :
        (BodyStep(t, "QueryMarkets") /\ lastQM.called)
        => frame'[t].markets = lastQM.markets
      ]_vars

\* C7: once a QueryMarkets call has returned a catalog, every later call
\* returns a catalog with the same contents, whatever configuration it runs
\* under.
C7_CatalogStableOnceLoaded ==
    [][\A t \in Threads :
        (BodyStep(t, "QueryMarkets") /\ lastQM.called /\ lastQM.err = ErrNil)
        => /\ frame'[t].err = ErrNil
           /\ frame'[t].markets = lastQM.markets
      ]_vars

C7_Witness ==
    \E t \in Threads :
        /\ pc[t] = At("QueryMarkets", "out")
        /\ frame[t].config = [file |-> "", json |-> TxtArrX]
        /\ frame[t].err = ErrNil
        /\ "PM_BTC_15M_UP_YES_USDC" \in DOMAIN frame[t].markets

\* The step in which thread t loads the catalog (none is cached) from the
\* inline JSON json, no file being configured.
LoadStep(t, json) ==
    /\ BodyStep(t, "QueryMarkets")
    /\ Cardinality(DOMAIN markets) = 0
    /\ frame'[t].config = [file |-> "", json |-> json]

\* C8 as claimed: loading {"Y":{"symbol":"","baseCurrency":"Y"}} fails with
\* a decode error.
C8_EmptySymbolObjectRejected ==
    [][\A t \in Threads :
        LoadStep(t, TxtObjY) => frame'[t].err \in {ErrDecode, ErrEmptySymbol}
      ]_vars

\* C8: loading {"Y":{"symbol":"","baseCurrency":"Y"}} succeeds through the
\* mapping shape, with the one key Y whose symbol is filled in from the
\* key; an empty symbol is a decode error in an array-shaped payload.
C8_EmptySymbolObjectBackfilled ==
    [][\A t \in Threads :
        /\ LoadStep(t, TxtObjY) =>
            /\ frame'[t].err = ErrNil
            /\ DOMAIN frame'[t].markets = {"Y"}
            /\ frame'[t].markets["Y"].Symbol = "Y"
            /\ frame'[t].markets["Y"].BaseCurrency = "Y"
            /\ markets' = frame'[t].markets
        /\ LoadStep(t, TxtArrNoSym) =>
            /\ frame'[t].err = ErrEmptySymbol
            /\ Cardinality(DOMAIN frame'[t].markets) = 0
            /\ markets' = markets
      ]_vars

C8_Witness ==
    \E t \in Threads :
        /\ pc[t] = At("QueryMarkets", "out")
        /\ frame[t].config = [file |-> "", json |-> TxtObjY]
        /\ "Y" \in DOMAIN frame[t].markets

C10_OpenOrdersExact ==
    \A t \in Threads :
        pc[t] = At("QueryOpenOrders", "out") =>
            LET res == frame[t].list
                symbol == frame[t].symbol
            IN  /\ frame[t].err = ErrNil
                /\ \A id \in DOMAIN orders :
                    Count(res, id) =
                        IF orders[id].IsWorking /\ (symbol = "" \/ orders[id].Symbol = symbol)
                        THEN 1 ELSE 0
                /\ \A i \in 1 .. Len(res) :
                    res[i].OrderID \in DOMAIN orders /\ res[i] = orders[res[i].OrderID]
                /\ symbol # "" =>
                    \A all \in OpenResults(orders, "") :
                        IdsOf(res) = {all[i].OrderID :
                                        i \in {j \in 1 .. Len(all) : all[j].Symbol = symbol}}

C10_Witness ==
    \E t \in Threads :
        /\ pc[t] = At("QueryOpenOrders", "out")
        /\ frame[t].symbol = "A"
        /\ Len(frame[t].list) = 1
        /\ Cardinality(DOMAIN orders) = 2
        /\ \A id \in DOMAIN orders : orders[id].IsWorking

\* C11: the orders in a QueryOpenOrders result a caller has kept read the
\* same (status, working flag and every other field) as when they were
\* returned, whatever SubmitOrder and CancelOrders did since.
C11_SnapshotIsStable ==
    snap.kept => \A i \in 1 .. Len(snap.list) : Seen(snap.list[i], orders) = snap.list[i].val

C11_Witness ==
    /\ snap.kept
    /\ Len(snap.list) = 1
    /\ snap.list[1].val.IsWorking
    /\ orders[snap.list[1].val.OrderID].Status = OrderStatusCanceled
    /\ Cardinality(DOMAIN orders) = 2

\* C12 as claimed: over any sequence of QueryMarkets calls on one Exchange
\* the catalog loader is invoked at most once.
C12_LoaderInvokedAtMostOnce == loads.invoked <= 1

\* C12: the loader is invoked only by a call that finds no catalog cached,
\* it succeeds at most once, and once it has succeeded every call returns the
\* cached catalog without invoking it.
C12_LoaderOnlyWhileUncached ==
    /\ [](/\ loads.ok <= 1
          /\ loads.ok = 1 <=> Cardinality(DOMAIN markets) > 0)
    /\ [][\A t \in Threads :
            BodyStep(t, "QueryMarkets") =>
                IF Cardinality(DOMAIN markets) > 0
                THEN /\ loads' = loads
                     /\ frame'[t].err = ErrNil
                     /\ frame'[t].markets = markets
                     /\ markets' = markets
                ELSE loads'.invoked = countUp(loads.invoked, TRUE)
         ]_vars

C12_Witness ==
    \E t \in Threads :
        /\ pc[t] = At("QueryMarkets", "out")
        /\ frame[t].config.file = "missing.json"
        /\ frame[t].err = ErrNil
        /\ frame[t].markets = markets
        /\ loads = [invoked |-> 2, ok |-> 1]

\* C13: the identifiers of the stored orders are exactly 1 .. nextOrderID - 1,
\* no order is ever removed from the map and the counter never decreases.
C13_IdsAreDense ==
    /\ [](DOMAIN orders = 1 .. nextOrderID - 1)
    /\ [][/\ nextOrderID' >= nextOrderID
          /\ DOMAIN orders \subseteq DOMAIN orders']_vars

C13_Witness ==
    /\ nextOrderID = 3
    /\ DOMAIN orders = {1, 2}
    /\ canceledIds = {1}

\* C14 as claimed: in every cached catalog each entry's symbol field is
\* non-empty and no two entries carry the same symbol field.
C14_SymbolsNonEmptyUnique ==
    /\ \A k \in DOMAIN markets : markets[k].Symbol # ""
    /\ \A k1, k2 \in DOMAIN markets : k1 # k2 => markets[k1].Symbol # markets[k2].Symbol

\* C15: every stored order is either NEW and working or CANCELED and not
\* working, and its executed quantity is zero.
C15_WorkingMirrorsStatus ==
    \A id \in DOMAIN orders :
        /\ orders[id].ExecutedQuantity = 0
        /\ \/ orders[id].Status = OrderStatusNew /\ orders[id].IsWorking
           \/ orders[id].Status = OrderStatusCanceled /\ ~orders[id].IsWorking

C15_Witness ==
    /\ DOMAIN orders = {1, 2}
    /\ orders[1].Status = OrderStatusNew
    /\ orders[2].Status = OrderStatusCanceled

\* C16: at most one call is inside its critical section (between taking the
\* mutex and the deferred unlock) at a time and it is the holder of the
\* mutex; a call enters only by taking the free mutex, and the catalog, the
\* counter and the order map change only in the step of a call that enters.
C16_MutualExclusion ==
    /\ [](/\ Cardinality({t \in Threads : pc[t].at = "out"}) <= 1
          /\ \A t \in Threads : pc[t].at = "out" <=> mu = t)
    /\ [][/\ \A t \in Threads :
                (pc[t].at # "out" /\ pc'[t].at = "out") => (mu = 0 /\ mu' = t)
          /\ <<markets, nextOrderID, orders>>' # <<markets, nextOrderID, orders>>
                => \E t \in Threads : pc[t].at = "lock" /\ pc'[t].at = "out"
         ]_vars

C16_Witness ==
    \E t, u \in Threads :
        /\ pc[t] = At("CancelOrders", "out")
        /\ mu = t
        /\ pc[u] = At("QueryMarkets", "lock")
        /\ 1 \in canceledIds
        /\ Cardinality(DOMAIN markets) > 0

\* The step in which thread t runs CancelOrders a further time: every order
\* it looks up was canceled before, and it looks up at least one.
Recancel(t) ==
    /\ BodyStep(t, "CancelOrders")
    /\ Len(frame'[t].list) > 0
    /\ \A i \in 1 .. Len(frame'[t].list) : frame'[t].list[i] = OrderStatusCanceled

\* C17 as claimed: a further CancelOrders with the same references leaves
\* every field of every stored order, the update timestamp included, and the
\* counter as the first left them.
C17_RecancelChangesNothing ==
    [][\A t \in Threads :
        Recancel(t) => (orders' = orders /\ nextOrderID' = nextOrderID)
      ]_vars

\* C17: a further CancelOrders with the same references leaves the counter,
\* the stored identifiers and every field of every stored order as the first
\* left them, except the update timestamp of the referenced orders, which
\* becomes the time of the later call.
C17_RecancelOnlyRestamps ==
    [][\A t \in Threads :
        Recancel(t) =>
            /\ nextOrderID' = nextOrderID
            /\ DOMAIN orders' = DOMAIN orders
            /\ \A id \in DOMAIN orders :
                    orders'[id] =
                        [orders[id] EXCEPT !.UpdateTime =
                            IF \E i \in 1 .. Len(frame'[t].refs) : frame'[t].refs[i] = id
                            THEN clock' ELSE @]
      ]_vars

C17_Witness ==
    \E t \in Threads :
        /\ pc[t] = At("CancelOrders", "out")
        /\ frame[t].refs = <<1>>
        /\ frame[t].list = <<OrderStatusCanceled>>
        /\ orders[1].UpdateTime = 1
        /\ orders[1].CreationTime = 0

\* C19: no step of a rejected SubmitOrder call (its gate, its return)
\* changes the counter, the order map or the identifiers issued; the
\* identifiers issued are 1, 2, ... without a gap, and a successful submit
\* gets the number of successful submits before it plus one, however many
\* calls were rejected in between.
C19_RejectedSubmitConsumesNothing ==
    /\ [](\A i \in 1 .. Len(issued) : issued[i] = i)
    /\ [][\A t \in Threads :
            /\ (/\ pc'[t] # pc[t]
                /\ At("SubmitOrder", "ret") \in {pc[t], pc'[t]})
               => UNCHANGED <<nextOrderID, orders, issued>>
            /\ BodyStep(t, "SubmitOrder") => frame'[t].ptr = Len(issued) + 1
         ]_vars

C19_Witness ==
    \E t, u \in Threads :
        /\ pc[t] = At("SubmitOrder", "out")
        /\ frame[t].ptr = 2
        /\ issued = <<1, 2>>
        /\ pc[u] = At("SubmitOrder", "ret")
        /\ frame[u].dryRun = "false"

\* C18: the holder of the mutex always releases it, also when QueryMarkets
\* ends with a read or decode error, and every caller waiting for the mutex
\* eventually gets it and completes its call (a SubmitOrder only while the
\* ledger has room for another order, MaxOrders being the most it holds).
C18_LockAlwaysReleased ==
    /\ \A t \in Threads : (mu = t) ~> (mu = 0)
    /\ \A t \in Threads :
            (pc[t] = At("QueryMarkets", "out") /\ frame[t].err # ErrNil) ~> (mu # t)
    /\ \A t \in Threads :
            (pc[t].at = "lock")
                ~> \/ pc[t] = Idle
                   \/ pc[t] = At("SubmitOrder", "lock") /\ nextOrderID > MaxOrders

C18_Witness ==
    \E t \in Threads :
        /\ lastQM.called
        /\ lastQM.err = ErrReadFile
        /\ Cardinality(DOMAIN markets) = 0
        /\ pc[t] = At("CancelOrders", "out")
        /\ mu = t

\* The fields of a stored order CancelOrders must leave alone.
KeptFields == {"Symbol", "Exchange", "OrderID", "ExecutedQuantity", "CreationTime"}

\* C20: CancelOrders cancels every stored order whose identifier is
\* referenced, whatever else the reference carries, writing only its status
\* (both status fields), working flag and update timestamp; it leaves every
\* other field of it, every other order, the counter, the stored identifiers
\* and the cached catalog as they were.
C20_CancelFrame ==
    [][\A t \in Threads :
        BodyStep(t, "CancelOrders") =>
            /\ nextOrderID' = nextOrderID
            /\ DOMAIN orders' = DOMAIN orders
            /\ markets' = markets
            /\ \A id \in DOMAIN orders :
                    IF \E i \in 1 .. Len(frame'[t].refs) : frame'[t].refs[i] = id
                    THEN /\ \A f \in KeptFields : orders'[id][f] = orders[id][f]
                         /\ orders'[id].Status = OrderStatusCanceled
                         /\ orders'[id].OriginalStatus = "CANCELED"
                         /\ ~orders'[id].IsWorking
                         /\ orders'[id].UpdateTime = clock'
                    ELSE orders'[id] = orders[id]
      ]_vars

C20_Witness ==
    \E t \in Threads :
        /\ pc[t] = At("CancelOrders", "out")
        /\ frame[t].refs = <<2>>
        /\ frame[t].list = <<OrderStatusNew>>
        /\ orders[2].Symbol = "A"
        /\ orders[2].Status = OrderStatusCanceled
        /\ orders[1].Status = OrderStatusNew
        /\ Cardinality(DOMAIN markets) = 2

====
